---- MODULE Spec2Model ----
(***************************************************************************)
(* Model of the Google Scholar scraper `citations`: the query builder      *)
(* (src/src/request.rs), the HTML extraction engine (src/src/scrape.rs),   *)
(* the Paper record (src/src/paper.rs) and the recursive citation crawler  *)
(* of the `scholar` binary (src/src/bin/scrape.rs).                        *)
(*                                                                         *)
(* Strings are sequences of lexical tokens: a decimal digit is always a    *)
(* token of its own, and a run of characters the code never looks into     *)
(* (the base endpoint, a parameter name, a title) is one token.            *)
(***************************************************************************)
EXTENDS Integers, Sequences, FiniteSets, TLC

(***************************************************************************)
(* Bounds of the model.                                                    *)
(***************************************************************************)
\* largest --recursive depth the runs start with
MaxDepth == 2
\* largest number of result blocks on one page
MaxCiters == 2

(***************************************************************************)
(* Option and Result values.                                               *)
(***************************************************************************)
None == <<>>
Some(x) == <<x>>
IsSome(o) == o # <<>>
Unwrap(o) == o[1]

Ok(v) == [ok |-> TRUE, val |-> <<v>>, err |-> "none"]
Err(k) == [ok |-> FALSE, val |-> <<>>, err |-> k]
Val(r) == r.val[1]

Min(a, b) == IF a <= b THEN a ELSE b
Max(a, b) == IF a >= b THEN a ELSE b

(***************************************************************************)
(* Strings and decimal numbers.                                            *)
(***************************************************************************)
DigitSeq == <<"0", "1", "2", "3", "4", "5", "6", "7", "8", "9">>
Digit == {DigitSeq[i] : i \in 1..10}
DigitVal(c) == (CHOOSE i \in 1..10 : DigitSeq[i] = c) - 1

\* format!("{}", n) of an unsigned integer
RECURSIVE ToDecimal(_)
ToDecimal(n) ==
    IF n < 10 THEN <<DigitSeq[n + 1]>>
    ELSE ToDecimal(n \div 10) \o <<DigitSeq[(n % 10) + 1]>>

\* value of a run of decimal digits
RECURSIVE DecimalValue(_)
DecimalValue(ds) ==
    IF ds = <<>> THEN 0
    ELSE 10 * DecimalValue(SubSeq(ds, 1, Len(ds) - 1)) + DigitVal(ds[Len(ds)])

RECURSIVE StripZeros(_)
StripZeros(ds) ==
    IF Len(ds) > 1 /\ ds[1] = "0" THEN StripZeros(Tail(ds)) ELSE ds

\* lexicographic ds > es for digit runs of equal length
RECURSIVE DigitsGreater(_, _)
DigitsGreater(ds, es) ==
    IF ds = <<>> THEN FALSE
    ELSE IF DigitVal(ds[1]) # DigitVal(es[1]) THEN DigitVal(ds[1]) > DigitVal(es[1])
    ELSE DigitsGreater(Tail(ds), Tail(es))

\* u64::MAX = 18446744073709551615 as a digit run
U64MaxDigits ==
    <<"1", "8", "4", "4", "6", "7", "4", "4", "0", "7",
      "3", "7", "0", "9", "5", "5", "1", "6", "1", "5">>

\* a digit run without leading zeros exceeds u64::MAX
ExceedsU64(s) ==
    \/ Len(s) > Len(U64MaxDigits)
    \/ Len(s) = Len(U64MaxDigits) /\ DigitsGreater(s, U64MaxDigits)

\* u32::MAX = 4294967295 as a digit run
U32MaxDigits == <<"4", "2", "9", "4", "9", "6", "7", "2", "9", "5">>

\* a digit run without leading zeros exceeds u32::MAX
ExceedsU32(s) ==
    \/ Len(s) > Len(U32MaxDigits)
    \/ Len(s) = Len(U32MaxDigits) /\ DigitsGreater(s, U32MaxDigits)

\* a parse that rejects every run of twenty digits
OverflowsU64Short(ds) == Len(StripZeros(ds)) >= Len(U64MaxDigits)

\* str::parse::<u64>() fails exactly when the digit run exceeds u64::MAX
OverflowsU64(ds) == ExceedsU64(StripZeros(ds))

\* A u64 is kept as its limbs in base 10^9, most significant first and
\* without a leading zero limb (zero is <<0>>): 2^64 - 1 needs three limbs,
\* and every limb fits the 32-bit integers of TLC.
U64(n) == <<n>>

\* u64::MAX
U64Max == <<18, 446744073, 709551615>>

\* the nine decimal digits of a limb that is not the leading one
RECURSIVE PadLimb(_)
PadLimb(ds) == IF Len(ds) < 9 THEN PadLimb(<<"0">> \o ds) ELSE ds

RECURSIVE LowLimbsToDecimal(_)
LowLimbsToDecimal(ls) ==
    IF ls = <<>> THEN <<>>
    ELSE PadLimb(ToDecimal(ls[1])) \o LowLimbsToDecimal(Tail(ls))

\* format!("{}", id) of a u64
U64ToDecimal(v) == ToDecimal(v[1]) \o LowLimbsToDecimal(Tail(v))

\* the u64 a digit run without leading zeros denotes
RECURSIVE U64FromDecimal(_)
U64FromDecimal(ds) ==
    IF Len(ds) <= 9 THEN <<DecimalValue(ds)>>
    ELSE U64FromDecimal(SubSeq(ds, 1, Len(ds) - 9))
             \o <<DecimalValue(SubSeq(ds, Len(ds) - 8, Len(ds)))>>

MinOf(S) == CHOOSE m \in S : \A n \in S : m <= n

\* the longest run of digits of s that starts at position i
RECURSIVE DigitRun(_, _)
DigitRun(s, i) ==
    IF i <= Len(s) /\ s[i] \in Digit THEN <<s[i]>> \o DigitRun(s, i + 1) ELSE <<>>

\* the base endpoint the crate root exports (paper.rs:57 shows its text)
GOOGLESCHOLAR_URL_BASE == "https://scholar.google.com/scholar"

(***************************************************************************)
(* paper.rs                                                                *)
(***************************************************************************)
\* an id whose citation URL ignores the id
cluster_id_to_citation_url_const(id) ==
    <<GOOGLESCHOLAR_URL_BASE, "?", "cites", "=", "0">>

\* an id that is put in the path of the URL
cluster_id_to_citation_url_path(id) ==
    <<GOOGLESCHOLAR_URL_BASE, "/", "cites", "/">> \o U64ToDecimal(id)

cluster_id_to_citation_url(id) ==
    <<GOOGLESCHOLAR_URL_BASE, "?", "cites", "=">> \o U64ToDecimal(id)

\* Paper::new; `year` is the field scrape.rs:162 assigns, None here
PaperNew(title, cluster_id) ==
    [title |-> title,
     link |-> None,
     cluster_id |-> cluster_id,
     year |-> None,
     citation_count |-> None,
     citers |-> None,
     citation_url |-> cluster_id_to_citation_url(cluster_id)]

(***************************************************************************)
(* scrape.rs: the regular expressions                                      *)
(***************************************************************************)
\* positions where (cluster|cites)=(\d+) matches
ClusterIdMatches(url) ==
    {i \in 1..Len(url) :
        /\ url[i] \in {"cluster", "cites"}
        /\ i + 2 <= Len(url)
        /\ url[i + 1] = "="
        /\ url[i + 2] \in Digit}

\* id.as_str().parse()?
ParseU64(ds) ==
    IF OverflowsU64(ds) THEN Err("Parse") ELSE Ok(U64FromDecimal(StripZeros(ds)))

\* the captures of the leftmost match, if there is one
ParseClusterIdAt(url, ms) ==
    IF ms = {} THEN Err("BadHtml") ELSE ParseU64(DigitRun(url, MinOf(ms) + 2))

parse_cluster_id(url) == ParseClusterIdAt(url, ClusterIdMatches(url))

\* positions where [^\d]+(\d+) matches: a non-digit whose run of non-digits
\* is followed by a digit
RECURSIVE NonDigitRunEnd(_, _)
NonDigitRunEnd(s, i) ==
    IF i <= Len(s) /\ s[i] \notin Digit THEN NonDigitRunEnd(s, i + 1) ELSE i

CitationCountMatches(text) ==
    {i \in 1..Len(text) :
        /\ text[i] \notin Digit
        /\ NonDigitRunEnd(text, i) <= Len(text)}

\* count.as_str().parse().unwrap() to a u32: Err("Panic") stands for the
\* unwrap aborting the process when the digits exceed u32::MAX
ParseU32(ds) ==
    IF ExceedsU32(StripZeros(ds)) THEN Err("Panic") ELSE Ok(DecimalValue(ds))

ParseCitationCountAt(text, ms) ==
    IF ms = {} THEN Err("BadHtml")
    ELSE ParseU32(DigitRun(text, NonDigitRunEnd(text, MinOf(ms))))

parse_citation_count(text) == ParseCitationCountAt(text, CitationCountMatches(text))

(***************************************************************************)
(* scrape.rs: documents.  A document is what the selectors of the code     *)
(* find in it:                                                             *)
(*   hdr     the first <a>-or-text child of #gs_rt_hdr > h2, if any:       *)
(*           [text, href], href None for a text node;                      *)
(*   blocks  the .gs_ri blocks under #gs_res_ccl_mid, in document order;   *)
(* and a block is                                                          *)
(*   rt      the children of its .gs_rt title region, if it has one:       *)
(*           each [name, text, href], name "" for a text node;             *)
(*   year    the year its .gs_a byline parses to, if any;                  *)
(*   fl      the children of its first .gs_fl footer, if it has one:       *)
(*           each [href, text].                                            *)
(***************************************************************************)
\* str::trim over tokens: " " is the whitespace token
RECURSIVE TrimStart(_)
TrimStart(s) == IF s # <<>> /\ s[1] = " " THEN TrimStart(Tail(s)) ELSE s

RECURSIVE TrimEnd(_)
TrimEnd(s) ==
    IF s # <<>> /\ s[Len(s)] = " " THEN TrimEnd(SubSeq(s, 1, Len(s) - 1)) ELSE s

Trim(s) == TrimEnd(TrimStart(s))

\* the concatenated text of the nodes of ns that are not <span>
RECURSIVE ConcatText(_)
ConcatText(ns) ==
    IF ns = <<>> THEN <<>>
    ELSE (IF ns[1].name # "span" THEN ns[1].text ELSE <<>>) \o ConcatText(Tail(ns))

\* the children of the title region; none when the block has no region
TitleChildren(node) == IF IsSome(node.rt) THEN Unwrap(node.rt) ELSE <<>>

Anchors(children) == {i \in 1..Len(children) : children[i].name = "a"}

\* a title that is always read as the unlinked variant
ArticleTitleUnlinked(children, anchors) ==
    [title |-> Trim(ConcatText(children)), link |-> None]

ArticleTitle(children, anchors) ==
    IF anchors # {}
    THEN [title |-> children[MinOf(anchors)].text, link |-> children[MinOf(anchors)].href]
    ELSE [title |-> Trim(ConcatText(children)), link |-> None]

scrape_article_title(node) ==
    ArticleTitle(TitleChildren(node), Anchors(TitleChildren(node)))

scrape_article_header(node) == [year |-> node.year]

\* the footer children whose href holds an id
CitationLinks(footer_nodes) ==
    {i \in 1..Len(footer_nodes) :
        /\ IsSome(footer_nodes[i].href)
        /\ parse_cluster_id(Unwrap(footer_nodes[i].href)).ok}

ArticleFooter(cluster_id, citation_count) ==
    IF ~citation_count.ok THEN citation_count
    ELSE Ok([cluster_id |-> cluster_id, citation_count |-> Val(citation_count)])

FooterOfNode(citation_node) ==
    ArticleFooter(Val(parse_cluster_id(Unwrap(citation_node.href))),
                  parse_citation_count(citation_node.text))

\* the maximum of a set of positions
MaxOf(S) == CHOOSE m \in S : \A n \in S : m >= n

\* the last link with an id instead of the first
FooterOfLastNode(footer_nodes, cites) ==
    IF cites = {} THEN Err("BadHtml") ELSE FooterOfNode(footer_nodes[MaxOf(cites)])

FooterOfNodes(footer_nodes, cites) ==
    IF cites = {} THEN Err("BadHtml") ELSE FooterOfNode(footer_nodes[MinOf(cites)])

scrape_article_footer(node) ==
    IF ~IsSome(node.fl) THEN Err("BadHtml")
    ELSE FooterOfNodes(Unwrap(node.fl), CitationLinks(Unwrap(node.fl)))

PaperOne(t, h, f) ==
    IF ~f.ok THEN f
    ELSE Ok([PaperNew(t.title, Val(f).cluster_id) EXCEPT
                !.link = t.link,
                !.year = h.year,
                !.citation_count = Some(Val(f).citation_count)])

scrape_paper_one(node) ==
    PaperOne(scrape_article_title(node), scrape_article_header(node),
             scrape_article_footer(node))

\* the loop of scrape_papers over the blocks from the i-th on
RECURSIVE ScrapeBlocks(_, _, _)
PushPaper(blocks, i, papers, r) ==
    IF ~r.ok THEN r ELSE ScrapeBlocks(blocks, i + 1, Append(papers, Val(r)))

ScrapeBlocks(blocks, i, papers) ==
    IF i > Len(blocks) THEN Ok(papers)
    ELSE PushPaper(blocks, i, papers, scrape_paper_one(blocks[i]))

\* a listing that has to hold a block
scrape_papers_nonempty(doc) ==
    IF doc.blocks = <<>> THEN Err("ResultNotFount") ELSE ScrapeBlocks(doc.blocks, 1, <<>>)

scrape_papers(doc) == ScrapeBlocks(doc.blocks, 1, <<>>)

TargetPaper(title, id) == IF ~id.ok THEN id ELSE Ok(PaperNew(title, Val(id)))

TargetPaperOfNode(target_paper_node) ==
    IF ~IsSome(target_paper_node.href) THEN Err("BadHtml")
    ELSE TargetPaper(target_paper_node.text,
                     parse_cluster_id(Unwrap(target_paper_node.href)))

\* CitationDocument::scrape_target_paper
scrape_target_paper(doc) ==
    IF ~IsSome(doc.hdr) THEN Err("ResultNotFount")
    ELSE TargetPaperOfNode(Unwrap(doc.hdr))

AttachCiters(paper, citers) ==
    IF ~citers.ok THEN citers ELSE Ok([paper EXCEPT !.citers = Some(Val(citers))])

WithCiters(target_paper, doc) ==
    IF ~target_paper.ok THEN target_paper
    ELSE AttachCiters(Val(target_paper), scrape_papers(doc))

scrape_target_paper_with_citers(doc) == WithCiters(scrape_target_paper(doc), doc)

\* ClusterDocument::scrape_target_paper
cluster_scrape_target_paper(doc) ==
    IF doc.blocks = <<>> THEN Err("ResultNotFount")
    ELSE scrape_paper_one(doc.blocks[1])

\* the blocked-page check every document offers
is_blocked(doc) == doc.blocked

(***************************************************************************)
(* request.rs: CitationQuery                                               *)
(***************************************************************************)
DEFAULT_MAX_RESULT_COUNT == 5
MAX_PAGE_RESULTS == 10

CitationQueryNew(citation_url) ==
    [citation_url |-> citation_url, max_result_count |-> DEFAULT_MAX_RESULT_COUNT]

CitationQuerySetCount(q, max_result_count) ==
    [q EXCEPT !.max_result_count = Min(max_result_count, MAX_PAGE_RESULTS)]

\* the tokens that open an absolute URL: a scheme and a host
AbsoluteBases == {GOOGLESCHOLAR_URL_BASE, "https://example.com"}

\* Url::parse succeeds: without a base URL it accepts absolute URLs only
UrlParses(url) == url # <<>> /\ url[1] \in AbsoluteBases

\* where the fragment of a URL starts: at its first "#", or past its end
FragmentAt(url, hs) == IF hs = {} THEN Len(url) + 1 ELSE MinOf(hs)

FragmentStart(url) == FragmentAt(url, {i \in 1..Len(url) : url[i] = "#"})

CitationQueryGetCount(q) == q.max_result_count

\* Url::query(): the part after the first "?" up to the fragment, if there
\* is one
QueryAfter(url, qs, h) ==
    IF qs = {} THEN None ELSE Some(SubSeq(url, MinOf(qs) + 1, h - 1))

UrlQuery(url) ==
    QueryAfter(url, {i \in 1..(FragmentStart(url) - 1) : url[i] = "?"}, FragmentStart(url))

\* Url::set_query on a URL that has a query: the fragment stays behind it
SetQuery(url, old, query) ==
    SubSeq(url, 1, FragmentStart(url) - 1 - Len(old)) \o query
        \o SubSeq(url, FragmentStart(url), Len(url))

\* a query string that replaces the old one
WithLocaleAndCountOnly(q, max_result_count) ==
    <<"hl", "=", "en", "&", "num", "=">> \o ToDecimal(max_result_count)

\* format!("{}&hl=en&num={}", q, self.max_result_count)
WithLocaleAndCount(q, max_result_count) ==
    q \o <<"&", "hl", "=", "en", "&", "num", "=">> \o ToDecimal(max_result_count)

\* CitationQuery::to_url; Err("Panic") stands for an unwrap aborting the
\* process: of Url::parse on a string that is no absolute URL, or of
\* Url::query on a URL without a query string
CitationQueryToUrl(q) ==
    IF ~UrlParses(q.citation_url) THEN Err("Panic")
    ELSE IF ~IsSome(UrlQuery(q.citation_url)) THEN Err("Panic")
    ELSE Ok(SetQuery(q.citation_url, Unwrap(UrlQuery(q.citation_url)),
                     WithLocaleAndCount(Unwrap(UrlQuery(q.citation_url)),
                                        q.max_result_count)))

ClusterQueryNew(cluster_id) == [cluster_id |-> cluster_id]

\* ClusterQuery::to_url
ClusterQueryToUrl(q) ==
    Ok(<<GOOGLESCHOLAR_URL_BASE, "?", "cluster", "=">> \o U64ToDecimal(q.cluster_id))

(***************************************************************************)
(* The pages of the model.                                                 *)
(***************************************************************************)
Ids == {1, 2}

OtherId(i) == IF i = 1 THEN 2 ELSE 1

TitleOf(i) == <<"Paper">> \o ToDecimal(i)

CitesHref(i) == <<"/scholar", "?", "cites", "=">> \o ToDecimal(i) \o <<"&", "hl", "=", "en">>

ClusterHref(i) == <<"https://scholar.google.co.jp/scholar", "?", "cluster", "=">> \o ToDecimal(i)

RelatedLink ==
    [href |-> Some(<<"/scholar", "?", "q", "=", "related", ":", "x">>),
     text |-> <<"Related articles">>]

CitedByLink(i) ==
    [href |-> Some(CitesHref(i)), text |-> <<"Cited by ", "1">> \o ToDecimal(i)]

\* paper 1 has a linked title (format 1), the others an unlinked one (format 2)
GoodBlock(i) ==
    [rt |-> Some(IF i = 1
                 THEN <<[name |-> "a", text |-> TitleOf(i),
                         href |-> Some(<<"http://example.org/paper.pdf">>)]>>
                 ELSE <<[name |-> "span", text |-> <<"[CITATION]">>, href |-> None],
                        [name |-> "", text |-> <<" ">> \o TitleOf(i) \o <<" ">>,
                         href |-> None]>>),
     year |-> IF i = 1 THEN Some(1996) ELSE None,
     fl |-> Some(<<RelatedLink, CitedByLink(i)>>)]

\* a block whose footer has no link with an id
BadBlock ==
    [rt |-> Some(<<[name |-> "", text |-> <<"Untitled">>, href |-> None]>>),
     year |-> None,
     fl |-> Some(<<RelatedLink>>)]

RECURSIVE SeqsUpTo(_, _)
Longer(S, n, shorter) ==
    shorter \cup {Append(s, x) : s \in {t \in shorter : Len(t) = n - 1}, x \in S}

SeqsUpTo(S, n) == IF n = 0 THEN {<<>>} ELSE Longer(S, n, SeqsUpTo(S, n - 1))

GoodListings == SeqsUpTo({GoodBlock(i) : i \in Ids}, MaxCiters)

BadListings == {<<BadBlock>>, <<GoodBlock(1), BadBlock>>}

OkHdr(i) == Some([text |-> TitleOf(i), href |-> Some(ClusterHref(i))])

BadHdrs ==
    { None,
      Some([text |-> <<"Plain title">>, href |-> None]),
      Some([text |-> <<"Title">>, href |-> Some(<<"/scholar", "?", "cluster", "=", "aaaaaa">>)]),
      Some([text |-> <<"Title">>,
            href |-> Some(<<"/scholar", "?", "cluster", "=", "9">> \o U64MaxDigits)]) }

Page(blocked, hdr, blocks) == [blocked |-> blocked, hdr |-> hdr, blocks |-> blocks]

Captcha == Page(TRUE, None, <<>>)

\* what the server may answer to a request for the citers of paper i
Responses(i) ==
    {Err("Reqwest"), Ok(Captcha), Ok(Page(TRUE, OkHdr(i), <<GoodBlock(1)>>)),
     Ok(Page(FALSE, OkHdr(OtherId(i)), <<>>))}
    \cup {Ok(Page(FALSE, h, <<>>)) : h \in BadHdrs}
    \cup {Ok(Page(FALSE, OkHdr(i), l)) : l \in GoodListings \cup BadListings}

Modes == {"cluster", "citation", "search"}

\* the document the run starts from
RootDocs(m) ==
    {Captcha}
    \cup (IF m = "cluster"
          THEN {Page(FALSE, None, l) : l \in {<<>>, <<BadBlock>>, <<GoodBlock(1)>>,
                                              <<GoodBlock(2), GoodBlock(1)>>}}
          ELSE IF m = "citation"
          THEN {Page(FALSE, None, <<GoodBlock(1)>>),
                Page(FALSE, OkHdr(1), <<GoodBlock(1), BadBlock>>),
                Page(FALSE, OkHdr(1), <<>>),
                Page(FALSE, OkHdr(1), <<GoodBlock(2), GoodBlock(1)>>)}
          ELSE {Page(FALSE, None, l) : l \in {<<>>, <<BadBlock>>,
                                              <<GoodBlock(1), GoodBlock(2)>>}})

(***************************************************************************)
(* bin/scrape.rs: the crawler, as a machine over the call stack.           *)
(*                                                                         *)
(* stack    the active calls, outermost first: the scrape_*_doc handler    *)
(*          of the run and the recursive_search calls under it             *)
(* web      the answer of the server for each id, fixed by the first       *)
(*          request for it                                                 *)
(* outcome  the Result the handler returned, None while it runs            *)
(* printed  the papers written to the output                               *)
(* log      the fetches, responses, extractions and returns so far, each   *)
(*          with the path of its call (the positions, from the root        *)
(*          document down, of the entries expanded)                        *)
(* A frame also keeps `done`: the calls it has made so far, each with the  *)
(* position and the entry it was made on and the result it returned.       *)
(* lastRet  the recursive_search call that returned last, and its result   *)
(***************************************************************************)
VARIABLES mode, cfg, rootDoc, web, stack, outcome, printed, log, lastRet

(***************************************************************************)
(* request.rs: the SearchQuery a caller builds.                            *)
(*                                                                         *)
(* query    the SearchQuery                                                *)
(* built    the Result of to_url on the query as it is now, None when      *)
(*          to_url was not called since the query last changed             *)
(* lastCall the method called last on the query, with its argument         *)
(***************************************************************************)
VARIABLES query, built, lastCall

(***************************************************************************)
(* request.rs: the CitationQuery a caller builds, and the URLs built from  *)
(* it and from ClusterQuery values.                                        *)
(*                                                                         *)
(* cquery   the CitationQuery                                              *)
(* casked   the argument of the last set_count on cquery, None before the  *)
(*          first one                                                      *)
(* cbuilt   the query to_url was called on last and what it returned       *)
(***************************************************************************)
VARIABLES cquery, casked, cbuilt

(***************************************************************************)
(* scrape.rs and paper.rs: one extraction function applied to one input.   *)
(*                                                                         *)
(* input    the function and its argument                                  *)
(* output   what the function returned, None before it is applied          *)
(***************************************************************************)
VARIABLES input, output

queryVars == <<query, built, lastCall>>

citeVars == <<cquery, casked, cbuilt>>

applyVars == <<input, output>>

libVars == <<queryVars, citeVars, applyVars>>

crawlVars == <<mode, cfg, rootDoc, web, stack, outcome, printed, log, lastRet>>

Frame(fn, paper, depth, path) ==
    [fn |-> fn, pc |-> "entry", paper |-> paper, depth |-> depth, path |-> path,
     url |-> None, doc |-> None, new_paper |-> None, citers |-> <<>>, i |-> 1,
     new_citers |-> <<>>, done |-> <<>>]

Top == stack[Len(stack)]

\* an entry of the log: "fetch" (request sent), "resp" (body received),
\* "extract" (extraction run on a document, blocked or not), "ret" (return)
Event(ev, path, blocked) == [ev |-> ev, path |-> path, blocked |-> blocked]

Running == stack # <<>>

SetTop(f) == [stack EXCEPT ![Len(stack)] = f]

\* exit_blocked!: the error to return at once, if any
exit_blocked_never(doc) == None

exit_blocked(doc) == IF is_blocked(doc) THEN Some(Err("Blocked")) ELSE None

\* a search that stops one level early
DepthExhaustedAtOne(recursive_depth) == recursive_depth <= 1

\* cfg.recursive_depth == 0, the terminal case
DepthExhausted(recursive_depth) == recursive_depth = 0

\* paper.clone() with the citers reset
TerminalResultReset(paper) == Ok([paper EXCEPT !.citers = Some(<<>>)])

\* return Ok(paper.clone())
TerminalResult(paper) == Ok(paper)

\* a depth that is passed on as it is
NewDepthSame(recursive_depth) == recursive_depth

\* new_cfg: c.recursive_depth -= 1, evaluated after the assertion that the
\* depth is positive
NewDepth(recursive_depth) == recursive_depth - 1

\* the query of a call: CitationQuery::new, and set_count when cfg has a count
QueryFor(paper, c) ==
    IF IsSome(c.max_result_count)
    THEN CitationQuerySetCount(CitationQueryNew(paper.citation_url),
                               Unwrap(c.max_result_count))
    ELSE CitationQueryNew(paper.citation_url)

\* a failed child empties the list
CollectOrReset(acc, r) == IF r.ok THEN Append(acc, Val(r)) ELSE <<>>

\* a child goes to the front of the list
CollectFront(acc, r) == IF r.ok THEN <<Val(r)>> \o acc ELSE acc

\* one step of flat_map(..).collect(): a Result yields its value or nothing
Collect(acc, r) == IF r.ok THEN Append(acc, Val(r)) ELSE acc

\* the entries taken last first
NextIndexReversed(f) == Len(f.citers) + 1 - f.i

\* .iter(): the position of the entry expanded next
NextIndex(f) == f.i

\* a failed call leaves its seed, unexpanded, in the caller's list
DeliverKeepingSeed(caller, f, r) ==
    [caller EXCEPT !.new_citers = Append(@, IF r.ok THEN Val(r) ELSE Unwrap(f.paper)),
                   !.done = Append(@, [idx |-> f.path[Len(f.path)],
                                       seed |-> Unwrap(f.paper), res |-> r])]

\* the caller's frame once the call of frame f has returned r to it
Deliver(caller, f, r) ==
    [caller EXCEPT !.new_citers = Collect(@, r),
                   !.done = Append(@, [idx |-> f.path[Len(f.path)],
                                       seed |-> Unwrap(f.paper), res |-> r])]

\* the callee stack limit of the model, never reached by the program
StackLimit == MaxDepth + 3

CrawlInit ==
    /\ mode \in Modes
    /\ cfg \in [recursive_depth : 0..MaxDepth, max_result_count : {None, Some(11)}]
    /\ rootDoc \in RootDocs(mode)
    /\ web = [i \in Ids |-> None]
    /\ stack = <<Frame(mode, None, cfg.recursive_depth, <<>>)>>
    /\ outcome = None
    /\ printed = <<>>
    /\ log = <<>>
    /\ lastRet = None

\* the handler returns r; it has printed ps
Finish(r, ps) ==
    /\ stack' = <<>>
    /\ outcome' = Some(r)
    /\ printed' = ps

\* every caller takes the result and goes on
ReturnToCaller(rest, f, r) ==
    /\ stack' = [rest EXCEPT ![Len(rest)] = Deliver(rest[Len(rest)], f, r)]
    /\ UNCHANGED <<outcome, printed>>

\* every handler returns the error of a failed call
ReturnToOrAbort(rest, f, r) ==
    IF rest[Len(rest)].fn \in {"cluster", "citation", "search"} /\ ~r.ok
    THEN Finish(Err(r.err), <<>>)
    ELSE /\ stack' = [rest EXCEPT ![Len(rest)] = Deliver(rest[Len(rest)], f, r)]
         /\ UNCHANGED <<outcome, printed>>

\* recursive_search, in frame f, returns r to its caller; `?` in
\* scrape_cluster_doc returns the error from the handler
ReturnTo(rest, f, r) ==
    IF rest[Len(rest)].fn = "cluster" /\ ~r.ok
    THEN Finish(Err(r.err), <<>>)
    ELSE /\ stack' = [rest EXCEPT ![Len(rest)] = Deliver(rest[Len(rest)], f, r)]
         /\ UNCHANGED <<outcome, printed>>

ReturnLogging(r, events) ==
    /\ lastRet' = Some([frame |-> Top, res |-> r])
    /\ log' = log \o events \o <<Event("ret", Top.path, FALSE)>>
    /\ ReturnTo(SubSeq(stack, 1, Len(stack) - 1), Top, r)

Return(r) == ReturnLogging(r, <<>>)

(***************************************************************************)
(* scrape_cluster_doc, scrape_citaiton_doc, scrape_search_doc              *)
(***************************************************************************)
ClusterPapers(p) == IF p.ok THEN Ok([target |-> None, list |-> <<Val(p)>>]) ELSE p

CitationPapers(p) ==
    IF p.ok THEN Ok([target |-> Some(Val(p)), list |-> Unwrap(Val(p).citers)]) ELSE p

SearchPapers(ps) == IF ps.ok THEN Ok([target |-> None, list |-> Val(ps)]) ELSE ps

\* what the handler extracts from its document: the papers to expand
RootScrape(m, doc) ==
    IF m = "cluster" THEN ClusterPapers(cluster_scrape_target_paper(doc))
    ELSE IF m = "citation" THEN CitationPapers(scrape_target_paper_with_citers(doc))
    ELSE SearchPapers(scrape_papers(doc))

\* what the handler prints, given the papers it ends with
RootOutput(m, target, list) ==
    IF m = "citation" THEN <<[Unwrap(target) EXCEPT !.citers = Some(list)]>>
    ELSE list

AtRoot == Running /\ Top.fn \in Modes

RootBlocked ==
    /\ AtRoot /\ Top.pc = "entry"
    /\ IsSome(exit_blocked(rootDoc))
    /\ Finish(Unwrap(exit_blocked(rootDoc)), <<>>)
    /\ UNCHANGED <<mode, cfg, rootDoc, web, log, lastRet>>
    /\ UNCHANGED libVars

RootExtracted(r) ==
    IF ~r.ok THEN Finish(r, <<>>)
    ELSE IF cfg.recursive_depth > 0
    THEN /\ stack' = SetTop([Top EXCEPT !.pc = "children",
                                        !.new_paper = Val(r).target,
                                        !.citers = Val(r).list])
         /\ UNCHANGED <<outcome, printed>>
    ELSE Finish(Ok("done"), RootOutput(mode, Val(r).target, Val(r).list))

RootExtract ==
    /\ AtRoot /\ Top.pc = "entry"
    /\ ~IsSome(exit_blocked(rootDoc))
    /\ log' = Append(log, Event("extract", <<>>, is_blocked(rootDoc)))
    /\ RootExtracted(RootScrape(mode, rootDoc))
    /\ UNCHANGED <<mode, cfg, rootDoc, web, lastRet>>
    /\ UNCHANGED libVars

\* the handler calls recursive_search(c, cfg) on its next paper
RootNextChild ==
    /\ AtRoot /\ Top.pc = "children"
    /\ Top.i <= Len(Top.citers)
    /\ stack' = Append(SetTop([Top EXCEPT !.i = @ + 1]),
                       Frame("recursive_search", Some(Top.citers[NextIndex(Top)]),
                             cfg.recursive_depth, <<NextIndex(Top)>>))
    /\ UNCHANGED <<mode, cfg, rootDoc, web, outcome, printed, log, lastRet>>
    /\ UNCHANGED libVars

RootFinish ==
    /\ AtRoot /\ Top.pc = "children"
    /\ Top.i > Len(Top.citers)
    /\ Finish(Ok("done"), RootOutput(mode, Top.new_paper, Top.new_citers))
    /\ UNCHANGED <<mode, cfg, rootDoc, web, log, lastRet>>
    /\ UNCHANGED libVars

(***************************************************************************)
(* recursive_search                                                        *)
(***************************************************************************)
InSearch == Running /\ Top.fn = "recursive_search"

\* the id the server reads from the request
RequestedId(url) ==
    CHOOSE i \in Ids : U64(i) = Val(parse_cluster_id(Unwrap(UrlQuery(url))))

\* depth 0: the paper is returned as it is
RsTerminal ==
    /\ InSearch /\ Top.pc = "entry"
    /\ DepthExhausted(Top.depth)
    /\ Return(TerminalResult(Unwrap(Top.paper)))
    /\ UNCHANGED <<mode, cfg, rootDoc, web>>
    /\ UNCHANGED libVars

\* a failed assertion or unwrap aborts the run; otherwise the request is out
\* and the call waits for the response
RsSend(url) ==
    IF ~(Top.depth > 0) \/ ~url.ok
    THEN /\ Finish(Err("Panic"), <<>>)
         /\ UNCHANGED log
    ELSE /\ stack' = SetTop([Top EXCEPT !.pc = "sent", !.url = Some(Val(url))])
         /\ log' = Append(log, Event("fetch", Top.path, FALSE))
         /\ UNCHANGED <<outcome, printed>>

\* the assertion, the query and the request of send_request
RsSendRequest ==
    /\ InSearch /\ Top.pc = "entry"
    /\ ~DepthExhausted(Top.depth)
    /\ RsSend(CitationQueryToUrl(QueryFor(Unwrap(Top.paper), cfg)))
    /\ UNCHANGED <<mode, cfg, rootDoc, web, lastRet>>
    /\ UNCHANGED libVars

\* the answers the server may give to the request of the top call
Answers(id) == IF IsSome(web[id]) THEN {Unwrap(web[id])} ELSE Responses(id)

\* the response arrives: a transport error, returned with `?`, or a body
RsResponse ==
    /\ InSearch /\ Top.pc = "sent"
    /\ \E r \in Answers(RequestedId(Unwrap(Top.url))) :
          /\ web' = [web EXCEPT ![RequestedId(Unwrap(Top.url))] = Some(r)]
          /\ IF ~r.ok
             THEN Return(r)
             ELSE /\ stack' = SetTop([Top EXCEPT !.pc = "received", !.doc = r.val])
                  /\ log' = Append(log, Event("resp", Top.path, FALSE))
                  /\ UNCHANGED <<outcome, printed, lastRet>>
    /\ UNCHANGED <<mode, cfg, rootDoc>>
    /\ UNCHANGED libVars

\* exit_blocked!(doc) returns Blocked
RsBlocked ==
    /\ InSearch /\ Top.pc = "received"
    /\ IsSome(exit_blocked(Unwrap(Top.doc)))
    /\ Return(Unwrap(exit_blocked(Unwrap(Top.doc))))
    /\ UNCHANGED <<mode, cfg, rootDoc, web>>
    /\ UNCHANGED libVars

ExtractEvent == Event("extract", Top.path, is_blocked(Unwrap(Top.doc)))

RsExtracted(r) ==
    IF ~r.ok
    THEN ReturnLogging(r, <<ExtractEvent>>)
    ELSE /\ stack' = SetTop([Top EXCEPT !.pc = "children",
                                        !.new_paper = r.val,
                                        !.citers = Unwrap(Val(r).citers)])
         /\ log' = Append(log, ExtractEvent)
         /\ UNCHANGED <<outcome, printed, lastRet>>

\* scrape_target_paper_with_citers: an error is returned with `?`
RsExtract ==
    /\ InSearch /\ Top.pc = "received"
    /\ ~IsSome(exit_blocked(Unwrap(Top.doc)))
    /\ RsExtracted(scrape_target_paper_with_citers(Unwrap(Top.doc)))
    /\ UNCHANGED <<mode, cfg, rootDoc, web>>
    /\ UNCHANGED libVars

\* the call on the next citer, with new_cfg
RsNextChild ==
    /\ InSearch /\ Top.pc = "children"
    /\ Top.i <= Len(Top.citers)
    /\ Len(stack) < StackLimit
    /\ stack' = Append(SetTop([Top EXCEPT !.i = @ + 1]),
                       Frame("recursive_search", Some(Top.citers[NextIndex(Top)]),
                             NewDepth(Top.depth), Append(Top.path, NextIndex(Top))))
    /\ UNCHANGED <<mode, cfg, rootDoc, web, outcome, printed, log, lastRet>>
    /\ UNCHANGED libVars

\* new_paper.citers = Some(new_citers); Ok(new_paper)
RsReturn ==
    /\ InSearch /\ Top.pc = "children"
    /\ Top.i > Len(Top.citers)
    /\ Return(Ok([Unwrap(Top.new_paper) EXCEPT !.citers = Some(Top.new_citers)]))
    /\ UNCHANGED <<mode, cfg, rootDoc, web>>
    /\ UNCHANGED libVars

Next ==
    \/ RootBlocked
    \/ RootExtract
    \/ RootNextChild
    \/ RootFinish
    \/ RsTerminal
    \/ RsSendRequest
    \/ RsResponse
    \/ RsBlocked
    \/ RsExtract
    \/ RsNextChild
    \/ RsReturn

vars == <<crawlVars, queryVars, citeVars, applyVars>>

\* SearchQuery::default
SearchQueryDefault ==
    [max_result_count |-> DEFAULT_MAX_RESULT_COUNT, words |-> None, authors |-> None,
     title_only |-> FALSE]

QueryInit ==
    /\ query = SearchQueryDefault
    /\ built = None
    /\ lastCall = None

\* no CitationQuery is built
CiteIdle ==
    /\ cquery = CitationQueryNew(cluster_id_to_citation_url(U64(1)))
    /\ casked = None
    /\ cbuilt = None

\* no extraction function is applied on its own
ApplyIdle ==
    /\ input = None
    /\ output = None

Init == CrawlInit /\ QueryInit /\ CiteIdle /\ ApplyIdle

Spec == Init /\ [][Next]_vars

(***************************************************************************)
(* request.rs: SearchQuery                                                 *)
(***************************************************************************)
\* longest words or authors text, in tokens, that append_* is tried on
MaxQueryLen == 3

\* the texts callers pass to the setters
Texts == {<<"foo">>, <<"bar">>}

\* the counts callers pass to set_count
Counts == {0, 1, 5, 10, 11, 2147483647}

\* a count that is stored as it is given
SearchQuerySetCountUnclamped(q, max_result_count) ==
    [q EXCEPT !.max_result_count = max_result_count]

SearchQuerySetCount(q, max_result_count) ==
    [q EXCEPT !.max_result_count = Min(max_result_count, MAX_PAGE_RESULTS)]

SearchQueryGetCount(q) == q.max_result_count

SearchQuerySetWords(q, words) == [q EXCEPT !.words = Some(words)]

\* a text joined to the old one without a space
AppendedNoSpace(old, text) ==
    IF IsSome(old) THEN Some(Unwrap(old) \o text) ELSE Some(text)

\* push(' ') and push_str on the old text, or the text itself
Appended(old, text) ==
    IF IsSome(old) THEN Some(Unwrap(old) \o <<" ">> \o text) ELSE Some(text)

SearchQueryAppendWords(q, words) == [q EXCEPT !.words = Appended(@, words)]

\* format!("\"{}\"", phrase)
Quoted(phrase) == <<"\"">> \o phrase \o <<"\"">>

SearchQuerySetPhrase(q, phrase) == SearchQuerySetWords(q, Quoted(phrase))

SearchQueryAppendPhrase(q, phrase) == SearchQueryAppendWords(q, Quoted(phrase))

SearchQuerySetAuthors(q, authors) == [q EXCEPT !.authors = Some(authors)]

SearchQueryAppendAuthors(q, authors) == [q EXCEPT !.authors = Appended(@, authors)]

SearchQuerySetTitleOnly(q, title_only) == [q EXCEPT !.title_only = title_only]

\* a query is valid whatever it holds
is_valid_always(q) == TRUE

is_valid(q) == IsSome(q.words) \/ IsSome(q.authors)

\* option_stringify!
OptionStringify(x) == IF IsSome(x) THEN Unwrap(x) ELSE <<>>

\* Url::set_query percent-encodes the space and the double quote
RECURSIVE QueryEncode(_)
QueryEncode(text) ==
    IF text = <<>> THEN <<>>
    ELSE <<(IF text[1] = " " THEN "%20" ELSE IF text[1] = "\"" THEN "%22" ELSE text[1])>>
         \o QueryEncode(Tail(text))

SearchQueryToUrl(q) ==
    IF ~is_valid(q) THEN Err("InvalidQuery")
    ELSE Ok(<<GOOGLESCHOLAR_URL_BASE, "?", "as_q", "=">>
            \o QueryEncode(OptionStringify(q.words))
            \o <<"&", "as_epq", "=", "&", "as_eq", "=", "&", "as_occt", "=",
                 (IF q.title_only THEN "title" ELSE "any"), "&", "as_sauthors", "=">>
            \o QueryEncode(OptionStringify(q.authors))
            \o <<"&", "as_publication", "=", "&", "as_ylo", "=", "&", "as_yhi", "=",
                 "&", "as_vis", "=", "0", "&", "btnG", "=", "&", "hl", "=", "en",
                 "&", "num", "=">>
            \o ToDecimal(q.max_result_count)
            \o <<"&", "as_sdt", "=", "0", "%2C", "5">>)

Call(fn, arg) == [fn |-> fn, arg |-> arg]

Changed(q, fn, arg) ==
    /\ query' = q
    /\ built' = None
    /\ lastCall' = Some(Call(fn, arg))
    /\ UNCHANGED <<crawlVars, citeVars, applyVars>>

FieldLen(x) == IF IsSome(x) THEN Len(Unwrap(x)) ELSE 0

SqSetCount == \E n \in Counts : Changed(SearchQuerySetCount(query, n), "set_count", <<n>>)

SqSetWords == \E t \in Texts : Changed(SearchQuerySetWords(query, t), "set_words", <<t>>)

SqAppendWords ==
    /\ FieldLen(query.words) <= MaxQueryLen
    /\ \E t \in Texts : Changed(SearchQueryAppendWords(query, t), "append_words", <<t>>)

SqSetPhrase == \E t \in Texts : Changed(SearchQuerySetPhrase(query, t), "set_phrase", <<t>>)

SqAppendPhrase ==
    /\ FieldLen(query.words) <= MaxQueryLen
    /\ \E t \in Texts : Changed(SearchQueryAppendPhrase(query, t), "append_phrase", <<t>>)

SqSetAuthors == \E t \in Texts : Changed(SearchQuerySetAuthors(query, t), "set_authors", <<t>>)

SqAppendAuthors ==
    /\ FieldLen(query.authors) <= MaxQueryLen
    /\ \E t \in Texts : Changed(SearchQueryAppendAuthors(query, t), "append_authors", <<t>>)

SqSetTitleOnly == \E b \in BOOLEAN : Changed(SearchQuerySetTitleOnly(query, b), "set_title_only", <<b>>)

SqToUrl ==
    /\ built' = Some(SearchQueryToUrl(query))
    /\ lastCall' = Some(Call("to_url", <<>>))
    /\ UNCHANGED <<query, crawlVars, citeVars, applyVars>>

QueryNext ==
    \/ SqSetCount
    \/ SqSetWords
    \/ SqAppendWords
    \/ SqSetPhrase
    \/ SqAppendPhrase
    \/ SqSetAuthors
    \/ SqAppendAuthors
    \/ SqSetTitleOnly
    \/ SqToUrl

\* no crawl runs while a query is built
CrawlIdle ==
    /\ mode = "search"
    /\ cfg = [recursive_depth |-> 0, max_result_count |-> None]
    /\ rootDoc = Captcha
    /\ web = [i \in Ids |-> None]
    /\ stack = <<>>
    /\ outcome = None
    /\ printed = <<>>
    /\ log = <<>>
    /\ lastRet = None

QueryStart == QueryInit /\ CrawlIdle /\ CiteIdle /\ ApplyIdle

QuerySpec == QueryStart /\ [][QueryNext]_vars

(***************************************************************************)
(* Properties of the crawler.                                              *)
(***************************************************************************)
\* the values of the calls of done that succeeded, in the order of the calls
RECURSIVE OkVals(_)
OkVals(done) ==
    IF done = <<>> THEN <<>>
    ELSE (IF done[1].res.ok THEN <<Val(done[1].res)>> ELSE <<>>) \o OkVals(Tail(done))

\* the call of frame f fetched its page, found it not blocked and extracted it
Expanded(f) == f.fn = "recursive_search" /\ f.pc = "children"

Returned == IsSome(lastRet)

RetFrame == Unwrap(lastRet).frame

RetRes == Unwrap(lastRet).res

ParentPath(path) == SubSeq(path, 1, Len(path) - 1)

CitersAreSuccesses(f, r) ==
    /\ r.ok
    /\ Len(f.done) = Len(f.citers)
    /\ Val(r).citers = Some(OkVals(f.done))

FailureStaysWithCaller(f, r) ==
    /\ Len(stack) >= Len(f.path)
    /\ stack[Len(f.path)].fn = "recursive_search"
    /\ stack[Len(f.path)].path = ParentPath(f.path)
    /\ Len(stack[Len(f.path)].done) >= f.path[Len(f.path)]
    /\ stack[Len(f.path)].done[f.path[Len(f.path)]].res = r

\* C1: failure isolation.  A recursive_search call with depth >= 2 whose own
\* page was fetched and extracted returns Ok, and its citers are exactly the
\* results of the child calls that succeeded, all of them, the failed ones
\* left out; a child call that fails returns to a caller that goes on.
C1_FailureIsolation ==
    Returned =>
        /\ (RetFrame.depth >= 2 /\ Expanded(RetFrame))
              => CitersAreSuccesses(RetFrame, RetRes)
        /\ (~RetRes.ok /\ Len(RetFrame.path) >= 2)
              => FailureStaysWithCaller(RetFrame, RetRes)

\* a call with depth >= 2 returned Ok with a failed child left out and a
\* sibling's expanded subtree kept
C1_Witness ==
    /\ Returned
    /\ RetFrame.depth >= 2 /\ Expanded(RetFrame) /\ RetRes.ok
    /\ \E j \in 1..Len(RetFrame.done) : ~RetFrame.done[j].res.ok
    /\ \E j \in 1..Len(RetFrame.done) :
          /\ RetFrame.done[j].res.ok
          /\ IsSome(Val(RetFrame.done[j].res).citers)
    /\ Len(Unwrap(Val(RetRes).citers)) = 1

\* the call of frame f failed on its own page: the fetch, the blocked check or
\* the extraction
FailedOnOwnPage(f, r) == f.depth > 0 /\ f.pc \in {"sent", "received"}

OwnPageError(f, r, kinds) ==
    /\ ~r.ok
    /\ r.val = <<>>
    /\ r.err \in kinds
    /\ f.pc = "sent" => r.err = "Reqwest"
    /\ (f.pc = "received" /\ is_blocked(Unwrap(f.doc))) => r.err = "Blocked"

ClusterAborts(f, r) ==
    (mode = "cluster" /\ Len(f.path) = 1)
        => /\ stack = <<>>
           /\ outcome = Some(Err(r.err))
           /\ printed = <<>>

FetchesOf(path) == {j \in 1..Len(log) : log[j].ev = "fetch" /\ log[j].path = path}

\* C3: a recursive_search call with depth 0 returns Ok of a paper equal to
\* its seed in every field, citers included, and issues no fetch.
C3_DepthZeroTerminal ==
    (Returned /\ RetFrame.depth = 0)
        => /\ RetRes = Ok(Unwrap(RetFrame.paper))
           /\ RetFrame.url = None
           /\ FetchesOf(RetFrame.path) = {}

\* a depth-0 call returned, after its caller had fetched
C3_Witness ==
    /\ Returned /\ RetFrame.depth = 0 /\ RetRes.ok
    /\ FetchesOf(ParentPath(RetFrame.path)) # {}

\* the calls of recursive_search below the handler: stack[2] is the outermost
\* (level 0), and each call has one less depth than its caller
NestingBounded ==
    /\ Len(stack) - 2 <= cfg.recursive_depth
    /\ \A k \in 2..Len(stack) :
          /\ stack[k].depth >= 0
          /\ stack[k].depth = cfg.recursive_depth - (k - 2)

Finished == outcome # None

\* the steps a call of recursive_search with the given depth takes at most,
\* from its entry to its return, on pages of at most MaxCiters entries
RECURSIVE StepsOfCall(_)
StepsOfCall(depth) ==
    IF depth <= 0 THEN 1 ELSE 4 + MaxCiters * (1 + StepsOfCall(depth - 1))

\* the steps left to a caller for the entries it has not yet expanded, each
\* a call with the given depth, and its own last step
StepsOfRest(f, depth) == (Len(f.citers) + 1 - f.i) * (1 + StepsOfCall(depth)) + 1

\* the steps frame f takes at most before it returns, its callees left out
StepsLeft(f) ==
    IF f.fn \in Modes
    THEN IF f.pc = "entry"
         THEN 2 + MaxCiters * (1 + StepsOfCall(cfg.recursive_depth))
         ELSE StepsOfRest(f, cfg.recursive_depth)
    ELSE IF f.pc = "entry" THEN StepsOfCall(f.depth)
    ELSE IF f.pc = "sent" THEN StepsOfCall(f.depth) - 1
    ELSE IF f.pc = "received" THEN StepsOfCall(f.depth) - 2
    ELSE StepsOfRest(f, f.depth - 1)

RECURSIVE SumStepsLeft(_)
SumStepsLeft(k) == IF k = 0 THEN 0 ELSE StepsLeft(stack[k]) + SumStepsLeft(k - 1)

\* the variant of the run: a natural number, 0 once the handler has returned
Remaining == SumStepsLeft(Len(stack))

\* the run goes on until the handler has returned: the call on top of the
\* stack is at a point of its code that has a next step
CanStep ==
    \/ AtRoot /\ Top.pc = "entry"
    \/ AtRoot /\ Top.pc = "children"
    \/ InSearch /\ Top.pc \in {"entry", "sent", "received"}
    \/ InSearch /\ Top.pc = "children" /\ Top.i > Len(Top.citers)
    \/ InSearch /\ Top.pc = "children" /\ Len(stack) < StackLimit

\* C4: every run ends, and the level of a recursive_search call (0 for the
\* call the handler makes) never exceeds the initial depth: each call has
\* exactly one less depth than its caller and none has a negative one,
\* whatever cycles the pages hold.  Every step takes the run nearer to its
\* end (the steps left, a natural number, go down), no page lists more than
\* MaxCiters entries, and the run stops only once the handler has returned.
C4_Termination ==
    /\ []NestingBounded
    /\ [](Remaining \in Nat /\ (Finished <=> ~Running))
    /\ [](Finished \/ CanStep)
    /\ [][Remaining' < Remaining]_vars

RECURSIVE HasExpandedSelfCiter(_)
HasExpandedSelfCiter(p) ==
    /\ IsSome(p.citers)
    /\ \E j \in 1..Len(Unwrap(p.citers)) :
          \/ /\ Unwrap(p.citers)[j].cluster_id = p.cluster_id
             /\ IsSome(Unwrap(p.citers)[j].citers)
          \/ HasExpandedSelfCiter(Unwrap(p.citers)[j])

\* a run ended after expanding a paper that cites itself
C4_Witness ==
    /\ outcome = Some(Ok("done"))
    /\ \E j \in 1..Len(printed) : HasExpandedSelfCiter(printed[j])

ExtractedBlocked == {j \in 1..Len(log) : log[j].ev = "extract" /\ log[j].blocked}

\* C5: no extraction runs on a blocked document; a call whose page is blocked
\* returns Blocked, and so does the handler whose document is blocked, which
\* prints nothing.
C5_BlockedBeforeExtraction ==
    /\ ExtractedBlocked = {}
    /\ (Returned /\ IsSome(RetFrame.doc) /\ is_blocked(Unwrap(RetFrame.doc)))
          => RetRes = Err("Blocked")
    /\ (is_blocked(rootDoc) /\ Finished)
          => (outcome = Some(Err("Blocked")) /\ printed = <<>>)

\* a call got a blocked page that extraction would accept, and returned Blocked
C5_Witness ==
    /\ Returned /\ IsSome(RetFrame.doc)
    /\ is_blocked(Unwrap(RetFrame.doc))
    /\ scrape_target_paper_with_citers(Unwrap(RetFrame.doc)).ok
    /\ RetRes = Err("Blocked")

SameButCiters(p, seed) ==
    /\ p.title = seed.title
    /\ p.cluster_id = seed.cluster_id
    /\ p.link = seed.link
    /\ p.citation_count = seed.citation_count
    /\ p.citation_url = seed.citation_url

\* C6: a successful expansion with depth > 0 returns its seed with the
\* citers populated: title, cluster id, link, citation count and citation
\* URL are those of the seed.
C6_ReturnsSeedWithCiters ==
    (Returned /\ RetFrame.depth > 0 /\ RetRes.ok)
        => /\ SameButCiters(Val(RetRes), Unwrap(RetFrame.paper))
           /\ IsSome(Val(RetRes).citers)

\* the papers of the result blocks of a page, in document order
RECURSIVE ListingOf(_)
ListingOf(blocks) ==
    IF blocks = <<>> THEN <<>>
    ELSE <<Val(scrape_paper_one(blocks[1]))>> \o ListingOf(Tail(blocks))

\* the entries of frame f are the result blocks of its page, left to right
FromPage(f) == IsSome(f.doc) /\ f.citers = ListingOf(Unwrap(f.doc).blocks)

\* the calls frame f has made are on its entries in their order, one call
\* per entry, and the list it builds holds the results of those that
\* succeeded, in that order
InOrder(f) ==
    /\ Len(f.done) <= Len(f.citers)
    /\ \A j \in 1..Len(f.done) : f.done[j].idx = j /\ f.done[j].seed = f.citers[j]
    /\ f.new_citers = OkVals(f.done)

\* the running call, once it has its entries, has them from its page and
\* expands them in order
RunningInOrder ==
    (Running /\ Top.pc = "children")
        => /\ InOrder(Top)
           /\ Top.fn = "recursive_search" => FromPage(Top)

\* the call that returned last, if it had expanded its page, returned the
\* page's entries in order, each as its expansion returned it, the failed
\* ones left out
ReturnedInOrder ==
    (Returned /\ Expanded(RetFrame))
        => /\ InOrder(RetFrame)
           /\ FromPage(RetFrame)
           /\ Len(RetFrame.done) = Len(RetFrame.citers)
           /\ RetRes.ok
           /\ Val(RetRes).citers = Some(RetFrame.new_citers)

\* a step leaves the callers of the running call as they are
CallersKept ==
    \A k \in 1..(Len(stack) - 1) :
        k < Len(stack') => stack'[k] = stack[k]

\* C7: the citers of an expanded node are the result blocks of its page in
\* document order, each as its expansion returned it, the failed ones
\* removed: none reordered, none twice.  The running call keeps that order
\* at every step, its callers wait unchanged, and a call returns the list
\* it has built.
C7_CitersOrder ==
    /\ []RunningInOrder
    /\ []ReturnedInOrder
    /\ [][CallersKept]_vars

\* a call returned two citers, of different papers, from a page of two blocks
C7_Witness ==
    /\ Returned /\ Expanded(RetFrame) /\ RetRes.ok
    /\ Len(Unwrap(Val(RetRes).citers)) = 2
    /\ Unwrap(Val(RetRes).citers)[1].cluster_id = RetFrame.citers[1].cluster_id
    /\ Unwrap(Val(RetRes).citers)[2].cluster_id = RetFrame.citers[2].cluster_id
    /\ RetFrame.citers[1].cluster_id # RetFrame.citers[2].cluster_id

IsPrefix(p, q) == Len(p) <= Len(q) /\ SubSeq(q, 1, Len(p)) = p

RetsOf(path) == {j \in 1..Len(log) : log[j].ev = "ret" /\ log[j].path = path}

\* the event at position j of log l answers the request before it, if that
\* is what the event before it is
FetchBlocks(l, j) ==
    (j > 1 /\ l[j - 1].ev = "fetch")
        => /\ l[j].ev \in {"resp", "ret"}
           /\ l[j].path = l[j - 1].path

\* what happens in the call on the m-th entry of a page happens after the
\* call on the entry before it has returned
AfterElderSibling(l, j) ==
    (l[j].path # <<>> /\ l[j].path[Len(l[j].path)] > 1)
        => \E h \in 1..(j - 1) :
              /\ l[h].ev = "ret"
              /\ l[h].path = Append(ParentPath(l[j].path),
                                    l[j].path[Len(l[j].path)] - 1)

\* nothing happens in a call that has returned, or below it
SubtreeComplete(l, j) ==
    \A h \in 1..(j - 1) : l[h].ev = "ret" => ~IsPrefix(l[h].path, l[j].path)

\* a request is the first event of its call
FirstOfCall(l, j) ==
    l[j].ev = "fetch" => \A h \in 1..(j - 1) : l[h].path # l[j].path

\* the events a step adds to the log come after those it has, in order
EventsInOrder ==
    /\ Len(log') >= Len(log)
    /\ SubSeq(log', 1, Len(log)) = log
    /\ \A j \in (Len(log) + 1)..Len(log') :
          /\ FetchBlocks(log', j)
          /\ AfterElderSibling(log', j)
          /\ SubtreeComplete(log', j)
          /\ FirstOfCall(log', j)

\* at most one request is out, that of the running call, and while it is
\* out the last event is that request
OneOutstanding ==
    /\ Cardinality({k \in 1..Len(stack) : stack[k].pc = "sent"}) <= 1
    /\ \A k \in 1..Len(stack) :
          stack[k].pc = "sent"
              => /\ k = Len(stack)
                 /\ log[Len(log)] = Event("fetch", stack[k].path, FALSE)

\* a call that returns its citers has seen the call on each entry return
ChildrenReturned ==
    (Returned /\ Expanded(RetFrame))
        => \A m \in 1..Len(RetFrame.citers) :
              RetsOf(Append(RetFrame.path, m)) # {}

\* C8: one fetch at a time, each answered before the next step; the entries
\* of a page are expanded in page order, the whole subtree of one before
\* the first fetch of the next; a call returns its citers only after the
\* call on each of its entries has returned.
C8_SequentialDepthFirst ==
    /\ []OneOutstanding
    /\ []ChildrenReturned
    /\ [][EventsInOrder]_vars

\* a run ended in which the first entry's subtree and the second entry
\* were both fetched
C8_Witness ==
    /\ outcome = Some(Ok("done"))
    /\ FetchesOf(<<1, 1>>) # {}
    /\ FetchesOf(<<1, 2>>) # {}
    /\ FetchesOf(<<2>>) # {}

\* the papers of the tree of p
RECURSIVE TreePapers(_)
TreePapers(p) ==
    {p} \cup (IF IsSome(p.citers)
              THEN UNION {TreePapers(Unwrap(p.citers)[j]) : j \in 1..Len(Unwrap(p.citers))}
              ELSE {})

SeqPapers(ps) == UNION {TreePapers(ps[j]) : j \in 1..Len(ps)}

ResultPapers(r) == IF r.ok THEN SeqPapers(r.val) ELSE {}

FramePapers(f) ==
    SeqPapers(f.paper) \cup SeqPapers(f.new_paper) \cup SeqPapers(f.citers)
        \cup SeqPapers(f.new_citers)
        \cup UNION {TreePapers(f.done[j].seed) \cup ResultPapers(f.done[j].res) :
                       j \in 1..Len(f.done)}

\* every paper the run holds: in the calls, printed or returned last
AllPapers ==
    UNION {FramePapers(stack[k]) : k \in 1..Len(stack)}
        \cup SeqPapers(printed)
        \cup (IF Returned THEN FramePapers(RetFrame) \cup ResultPapers(RetRes) ELSE {})

\* url is the base endpoint, "?cites=" and the decimal digits of id
IsCitationUrlOf(url, id) ==
    /\ Len(url) > 4
    /\ SubSeq(url, 1, 4) = <<"https://scholar.google.com/scholar", "?", "cites", "=">>
    /\ \A j \in 5..Len(url) : url[j] \in Digit
    /\ StripZeros(SubSeq(url, 5, Len(url))) = SubSeq(url, 5, Len(url))
    /\ Len(url) - 4 <= 9 * Len(id)
    /\ Len(url) - 4 > 9 * (Len(id) - 1)
    /\ \A k \in 1..Len(id) :
          id[k] = DecimalValue(SubSeq(url, Max(5, Len(url) - 9 * (Len(id) - k) - 8),
                                           Len(url) - 9 * (Len(id) - k)))

\* C9: the citation_url of every paper is the base endpoint followed by
\* "?cites=<cluster_id>", so papers of equal cluster_id have equal
\* citation_url.
C9_CitationUrlOfClusterId ==
    /\ \A p \in AllPapers : IsCitationUrlOf(p.citation_url, p.cluster_id)
    /\ \A p, q \in AllPapers :
          p.cluster_id = q.cluster_id => p.citation_url = q.citation_url

\* a printed tree holds one paper twice, as a listing entry and as a target
C9_Witness ==
    /\ outcome = Some(Ok("done"))
    /\ \E p, q \in SeqPapers(printed) :
          /\ p # q
          /\ p.cluster_id = q.cluster_id
          /\ IsSome(p.citation_count) /\ ~IsSome(q.citation_count)

(***************************************************************************)
(* Properties of SearchQuery.                                              *)
(***************************************************************************)
\* C10: to_url on a SearchQuery with neither words nor authors fails with
\* InvalidQuery and gives no URL, whatever its count and title-only flag.
C10_NoWordsNoAuthorsInvalid ==
    (IsSome(built) /\ ~IsSome(query.words) /\ ~IsSome(query.authors))
        => /\ ~Unwrap(built).ok
           /\ Unwrap(built).err = "InvalidQuery"
           /\ Unwrap(built).val = <<>>

\* to_url ran on a query with its count and title-only flag set and no
\* words or authors
C10_Witness ==
    /\ IsSome(built)
    /\ ~IsSome(query.words) /\ ~IsSome(query.authors)
    /\ query.max_result_count = 1
    /\ query.title_only
\* the value of the first parameter `name` of a URL
ParamAt(url, ps) == DecimalValue(DigitRun(url, MinOf(ps) + 2))

ParamValue(url, name) ==
    ParamAt(url, {i \in 1..(Len(url) - 2) : url[i] = name /\ url[i + 1] = "="})

\* C11: to_url on a valid SearchQuery (words or authors set), reached by any
\* sequence of setter calls, succeeds, and the num parameter of its URL is
\* in 1..10.
C11_NumInRange ==
    (IsSome(built) /\ (IsSome(query.words) \/ IsSome(query.authors)))
        => /\ Unwrap(built).ok
           /\ ParamValue(Val(Unwrap(built)), "num") \in 1..10
(***************************************************************************)
(* request.rs: CitationQuery and ClusterQuery                              *)
(***************************************************************************)
\* the strings callers pass to CitationQuery::new: the citation_url of a
\* Paper, one with a second parameter, one with a fragment, the URL of the
\* doc example of set_count (no query string), and two strings that are no
\* absolute URL
CitationUrls ==
    {cluster_id_to_citation_url(U64(0)),
     cluster_id_to_citation_url(U64(1)) \o <<"&", "foo", "=", "bar">>,
     cluster_id_to_citation_url(U64(2)) \o <<"#", "top">>,
     <<"https://example.com">>,
     <<"/scholar", "?", "cites", "=", "1">>,
     <<"foo">>}

\* the ids callers pass to ClusterQuery::new
ClusterIds == {U64(0), U64(999), <<1, 0>>, U64Max}

CqSetCount ==
    /\ \E n \in Counts :
          /\ cquery' = CitationQuerySetCount(cquery, n)
          /\ casked' = Some(n)
    /\ cbuilt' = None
    /\ UNCHANGED <<crawlVars, queryVars, applyVars>>

CqToUrl ==
    /\ cbuilt' = Some([kind |-> "citation", url |-> CitationQueryToUrl(cquery)])
    /\ UNCHANGED <<cquery, casked, crawlVars, queryVars, applyVars>>

\* ClusterQuery::new(id).to_url()
ClToUrl ==
    /\ \E id \in ClusterIds :
          cbuilt' = Some([kind |-> "cluster", id |-> id,
                          url |-> ClusterQueryToUrl(ClusterQueryNew(id))])
    /\ UNCHANGED <<cquery, casked, crawlVars, queryVars, applyVars>>

CiteNext == CqSetCount \/ CqToUrl \/ ClToUrl

\* CitationQuery::new on one of the strings
CiteInit ==
    /\ cquery \in {CitationQueryNew(u) : u \in CitationUrls}
    /\ casked = None
    /\ cbuilt = None

CiteStart == CiteInit /\ CrawlIdle /\ QueryInit /\ ApplyIdle

CiteSpec == CiteStart /\ [][CiteNext]_vars

\* C12: to_url of every ClusterQuery and of every CitationQuery built with
\* CitationQuery::new and set_count calls returns a URL: it neither fails
\* nor aborts.
C12_ToUrlAlwaysSucceeds == IsSome(cbuilt) => Unwrap(cbuilt).url.ok

\* r is u with "&hl=en&num=<count>" put in where the query string of u ends
\* (at h, where the fragment of u starts or u ends): what u has before h and
\* from h on is in r as it was
AppendedAt(u, r, h, count) ==
    /\ Len(r) > Len(u) + 7
    /\ SubSeq(r, 1, h - 1) = SubSeq(u, 1, h - 1)
    /\ SubSeq(r, h, h + 6) = <<"&", "hl", "=", "en", "&", "num", "=">>
    /\ \A j \in (h + 7)..(h + 6 + Len(r) - Len(u) - 7) : r[j] \in Digit
    /\ r[h + 7] # "0" \/ Len(r) = Len(u) + 8
    /\ DecimalValue(SubSeq(r, h + 7, h + 6 + Len(r) - Len(u) - 7)) = count
    /\ SubSeq(r, h + Len(r) - Len(u), Len(r)) = SubSeq(u, h, Len(u))

HashPositions(u) == {i \in 1..Len(u) : u[i] = "#"}

QueryEnd(u) == IF HashPositions(u) = {} THEN Len(u) + 1 ELSE MinOf(HashPositions(u))

AppendsCount(count) ==
    AppendedAt(cquery.citation_url, Val(Unwrap(cbuilt).url),
               QueryEnd(cquery.citation_url), count)

BuiltFromCitation == IsSome(cbuilt) /\ Unwrap(cbuilt).kind = "citation"

Clamped(n) == IF n > 10 THEN 10 ELSE n

CountNext == SqSetCount \/ CqSetCount

CountStart == QueryInit /\ CiteInit /\ CrawlIdle /\ ApplyIdle

CountSpec == CountStart /\ [][CountNext]_vars

CalledSetCount == IsSome(lastCall) /\ Unwrap(lastCall).fn = "set_count"

\* C14: get_count is 5 on a fresh SearchQuery and a fresh CitationQuery,
\* and after set_count(n) it is n when n <= 10 and 10 when n > 10.
C14_CountClamped ==
    /\ ~IsSome(lastCall) => SearchQueryGetCount(query) = 5
    /\ CalledSetCount =>
          SearchQueryGetCount(query) = Clamped(Unwrap(lastCall).arg[1])
    /\ ~IsSome(casked) => CitationQueryGetCount(cquery) = 5
    /\ IsSome(casked) => CitationQueryGetCount(cquery) = Clamped(Unwrap(casked))

\* set_count(11) on the SearchQuery and set_count(2147483647) on the
\* CitationQuery
C14_Witness ==
    /\ lastCall = Some(Call("set_count", <<11>>))
    /\ SearchQueryGetCount(query) = 10
    /\ casked = Some(2147483647)
    /\ CitationQueryGetCount(cquery) = 10

(***************************************************************************)
(* Properties of the SearchQuery setters.                                  *)
(***************************************************************************)
\* the reference: what a field holds after a call that sets it, and after a
\* call that appends to it
RefSet(text) == <<text>>

RefAppend(old, text) ==
    IF old = <<>> THEN <<text>> ELSE <<old[1] \o <<" ">> \o text>>

RefPhrase(text) == <<"\"">> \o text \o <<"\"">>

RefWords(call, old) ==
    CASE call.fn = "set_words" -> RefSet(call.arg[1])
      [] call.fn = "append_words" -> RefAppend(old, call.arg[1])
      [] call.fn = "set_phrase" -> RefSet(RefPhrase(call.arg[1]))
      [] call.fn = "append_phrase" -> RefAppend(old, RefPhrase(call.arg[1]))
      [] OTHER -> old

RefAuthors(call, old) ==
    CASE call.fn = "set_authors" -> RefSet(call.arg[1])
      [] call.fn = "append_authors" -> RefAppend(old, call.arg[1])
      [] OTHER -> old

FollowsReference ==
    /\ query'.words = RefWords(Unwrap(lastCall'), query.words)
    /\ query'.authors = RefAuthors(Unwrap(lastCall'), query.authors)

\* C15: words and authors are unset on a fresh SearchQuery, and every call
\* leaves in them what the reference gives: set_ replaces the field,
\* append_ sets an unset field and otherwise joins the text to the old value
\* with one space, a phrase goes to words wrapped in double quotes, and a
\* call on words or phrase leaves authors alone and the other way round.
C15_SettersFollowReference ==
    /\ [](~IsSome(lastCall) => ~IsSome(query.words) /\ ~IsSome(query.authors))
    /\ [][FollowsReference]_vars

\* append_phrase("bar") after words "foo" were set, with authors set
C15_Witness ==
    /\ lastCall = Some(Call("append_phrase", <<<<"bar">>>>))
    /\ query.words = Some(<<"foo", " ", "\"", "bar", "\"">>)
    /\ query.authors = Some(<<"bar", " ", "foo">>)

(***************************************************************************)
(* scrape.rs and paper.rs: the extraction functions, each applied to one   *)
(* input.                                                                  *)
(***************************************************************************)
\* longest link text, in tokens, parse_citation_count is tried on
MaxTextLen == 3
\* largest number of links in the footer of a block
MaxLinks == 3

\* the tokens of a link text: two labels, a space and three digits
CountTokens == {"Cited by ", "Zitiert von: ", " ", "0", "1", "2"}

\* the link texts, and one whose number is u32::MAX + 1
CountTexts ==
    SeqsUpTo(CountTokens, MaxTextLen)
        \cup {<<"Cited by ", "4", "2", "9", "4", "9", "6", "7", "2", "9", "6">>}

Link(href, text) == [href |-> href, text |-> text]

\* the children of a footer: links without an id (the hrefs of
\* tests::parse_cluster_id_fail among them), a text node, a link whose id
\* exceeds u64::MAX, and links with an id
FooterLinks ==
    {RelatedLink,
     Link(Some(<<"foo">>), <<"Cited by ", "2", "0">>),
     Link(Some(<<"claster", "=", "0", "0", "0", "0", "0", "0">>), <<"Cited by ", "3">>),
     Link(Some(<<"cluster", "=", "aaaaaa">>), <<"Cited by ", "4">>),
     Link(None, <<"Cited by ", "5">>),
     Link(Some(<<"/scholar", "?", "cites", "=", "9">> \o U64MaxDigits), <<"Cited by ", "6">>),
     CitedByLink(1),
     Link(Some(ClusterHref(2)), <<"All ", "7", " versions">>),
     Link(Some(CitesHref(2)), <<"Cited by">>)}

\* the title regions of a block: none, a linked title, a plain one
TitleRegions ==
    {None,
     Some(<<[name |-> "a", text |-> <<"Linked">>, href |-> Some(<<"http://example.org/">>)]>>),
     Some(<<[name |-> "", text |-> <<" ", "Plain", " ">>, href |-> None]>>)}

\* largest number of children of a title region
MaxTitleChildren == 3

\* the children of a title region: an anchor, an anchor without href whose
\* text has blanks around it, the prefix tag, a text node and another
\* element
TitleChildKinds ==
    {[name |-> "a", text |-> <<"Linked">>, href |-> Some(<<"http://example.org/">>)],
     [name |-> "a", text |-> <<" ", "Other", " ">>, href |-> None],
     [name |-> "span", text |-> <<"[PDF]">>, href |-> None],
     [name |-> "", text |-> <<" ", "Plain", " ">>, href |-> None],
     [name |-> "b", text |-> <<"Bold">>, href |-> None]}

\* the .gs_ri blocks scrape_paper_one is tried on: every footer under three
\* title regions, and every title region over one footer
Blocks ==
    {[rt |-> t, year |-> None, fl |-> f] :
        t \in TitleRegions,
        f \in {None} \cup {Some(l) : l \in SeqsUpTo(FooterLinks, MaxLinks)}}
      \cup {[rt |-> Some(cs), year |-> None, fl |-> Some(<<RelatedLink, CitedByLink(1)>>)] :
                cs \in SeqsUpTo(TitleChildKinds, MaxTitleChildren)}

\* the documents scrape_papers is tried on
Listings == {Page(FALSE, None, l) : l \in GoodListings \cup BadListings}

\* the ids a citation URL is built from
RoundTripIds ==
    {U64(n) : n \in 0..12}
        \cup {U64(999999999), <<1, 0>>, <<1, 1>>, <<1, 100000000>>, <<999999999, 999999999>>,
              <<1, 0, 0>>, <<18, 0, 0>>, <<18, 446744073, 709551614>>, U64Max}

\* the hrefs of tests::parse_cluster_id_pass and parse_cluster_id_fail
TestHrefs ==
    {<<"cluster", "=", "1", "2", "3", "4", "5", "6">>,
     <<"scholar", "?", "cluster", "=", "6", "5", "4", "3", "2", "1">>,
     <<"scholar", "?", "cluster", "=", "2", "2", "2", "2", "2", "2", "&", "foo", "=", "bar">>,
     <<"foo">>,
     <<"claster", "=", "0", "0", "0", "0", "0", "0">>,
     <<"cluster", "=", "aaaaaa">>}

Applied(fn, arg, from) == [fn |-> fn, arg |-> arg, from |-> from]

Inputs ==
    {Applied("parse_citation_count", t, None) : t \in CountTexts}
        \cup {Applied("scrape_paper_one", b, None) : b \in Blocks}
        \cup {Applied("scrape_papers", d, None) : d \in Listings}
        \cup {Applied("cluster_id_to_citation_url", x, None) : x \in RoundTripIds}
        \cup {Applied("parse_cluster_id", h, None) : h \in TestHrefs}

Applying(fn) == IsSome(input) /\ Unwrap(input).fn = fn /\ ~IsSome(output)

Returns(r) ==
    /\ output' = Some(r)
    /\ UNCHANGED <<input, crawlVars, queryVars, citeVars>>

ApplyParseCitationCount ==
    /\ Applying("parse_citation_count")
    /\ Returns(parse_citation_count(Unwrap(input).arg))

ApplyScrapePaperOne ==
    /\ Applying("scrape_paper_one")
    /\ Returns(scrape_paper_one(Unwrap(input).arg))

ApplyScrapePapers ==
    /\ Applying("scrape_papers")
    /\ Returns(scrape_papers(Unwrap(input).arg))

\* the citation URL of an id becomes the input of parse_cluster_id
ApplyCitationUrl ==
    /\ Applying("cluster_id_to_citation_url")
    /\ input' = Some(Applied("parse_cluster_id",
                              cluster_id_to_citation_url(Unwrap(input).arg),
                              Some(Unwrap(input).arg)))
    /\ UNCHANGED <<output, crawlVars, queryVars, citeVars>>

ApplyParseClusterId ==
    /\ Applying("parse_cluster_id")
    /\ Returns(parse_cluster_id(Unwrap(input).arg))

ScrapeNext ==
    \/ ApplyParseCitationCount
    \/ ApplyScrapePaperOne
    \/ ApplyScrapePapers
    \/ ApplyCitationUrl
    \/ ApplyParseClusterId

ScrapeInit ==
    /\ input \in {Some(a) : a \in Inputs}
    /\ output = None

ScrapeStart == ScrapeInit /\ CrawlIdle /\ QueryInit /\ CiteIdle

ScrapeSpec == ScrapeStart /\ [][ScrapeNext]_vars

Applies(fn) == IsSome(input) /\ Unwrap(input).fn = fn /\ IsSome(output)

Arg == Unwrap(input).arg

Out == Unwrap(output)

(***************************************************************************)
(* Properties of the extraction functions.                                 *)
(***************************************************************************)
\* where an href has "cluster=" or "cites=" followed by a digit
IdParams(href) ==
    {i \in 1..(Len(href) - 2) :
        href[i] \in {"cluster", "cites"} /\ href[i + 1] = "=" /\ href[i + 2] \in Digit}

CarriesId(link) == IsSome(link.href) /\ IdParams(Unwrap(link.href)) # {}

\* the digits of the first such parameter, without leading zeros
IdDigits(link) ==
    StripZeros(DigitRun(Unwrap(link.href), MinOf(IdParams(Unwrap(link.href))) + 2))

CarriesU64Id(link) == CarriesId(link) /\ ~ExceedsU64(IdDigits(link))

DigitPositions(text) == {i \in 1..Len(text) : text[i] \in Digit}

\* the first run of digits of a text that has one
FirstDigitRun(text) == DigitRun(text, MinOf(DigitPositions(text)))

\* the paper has the id of the link's href and the number of its text
TakenFrom(paper, link) ==
    /\ U64ToDecimal(paper.cluster_id) = IdDigits(link)
    /\ IsSome(paper.citation_count)
    /\ DigitPositions(link.text) # {}
    /\ ToDecimal(Unwrap(paper.citation_count)) = StripZeros(FirstDigitRun(link.text))

\* the paper is taken from the first of the links at the positions S
TakenFromFirst(paper, links, S) == S # {} /\ TakenFrom(paper, links[MinOf(S)])

OnFooter == Applies("scrape_paper_one") /\ IsSome(Arg.fl)

Footer == Unwrap(Arg.fl)

\* C16 as stated: the paper scrape_paper_one returns has the cluster id and
\* the citation count of the first footer link whose href carries a
\* cluster=<digits> or cites=<digits> parameter.
C16_FirstLinkWithIdParameter ==
    (OnFooter /\ Out.ok)
        => TakenFromFirst(Val(Out), Footer,
                          {i \in 1..Len(Footer) : CarriesId(Footer[i])})

\* C16: the paper scrape_paper_one returns has the cluster id and the
\* citation count of the first footer link whose href carries a
\* cluster=<digits> or cites=<digits> parameter with digits that are a u64,
\* never of an earlier link; without such a link the block is BadHtml.
C16_FirstLinkWithU64Id ==
    OnFooter
        => /\ Out.ok => TakenFromFirst(Val(Out), Footer,
                                       {i \in 1..Len(Footer) : CarriesU64Id(Footer[i])})
           /\ (\A i \in 1..Len(Footer) : ~CarriesU64Id(Footer[i]))
                  => Out = Err("BadHtml")

\* a footer of "Related articles", a link with a text like a count but
\* without an id, and the "Cited by" link
C16_Witness ==
    /\ OnFooter
    /\ Out.ok
    /\ Len(Footer) = 3
    /\ Footer[1] = RelatedLink
    /\ Footer[2].href = Some(<<"foo">>)
    /\ Footer[3] = CitedByLink(1)
    /\ Val(Out).citation_count = Some(11)

\* C17: parse_citation_count returns the number of the first run of digits
\* of the text, wherever it is, and BadHtml for a text without digits.
C17_FirstDigitRunAnywhere ==
    Applies("parse_citation_count")
        => IF DigitPositions(Arg) = {} THEN Out = Err("BadHtml")
           ELSE /\ Out.ok
                /\ ToDecimal(Val(Out)) = StripZeros(FirstDigitRun(Arg))

\* C18: scrape_paper_one on a block without a title region fails with
\* BadHtml.
C18_NoTitleRegionIsBadHtml ==
    (Applies("scrape_paper_one") /\ ~IsSome(Arg.rt)) => Out = Err("BadHtml")

\* C19: scrape_papers on a document without result blocks returns Ok with
\* the empty list.
C19_EmptyListingIsOk ==
    (Applies("scrape_papers") /\ Arg.blocks = <<>>)
        => Out = [ok |-> TRUE, val |-> << <<>> >>, err |-> "none"]

C19_Witness ==
    /\ Applies("scrape_papers")
    /\ Len(Arg.blocks) = 0
    /\ Out.ok

\* C20: parse_cluster_id on the citation URL built from a u64 x, the base
\* endpoint followed by "?cites=" and the decimal digits of x, returns x.
C20_RoundTrip ==
    (Applies("parse_cluster_id") /\ IsSome(Unwrap(input).from))
        => /\ SubSeq(Arg, 1, 4) = <<"https://scholar.google.com/scholar", "?", "cites", "=">>
           /\ Out = [ok |-> TRUE, val |-> Unwrap(input).from, err |-> "none"]

\* the round trip of 2^64 - 1
C20_Witness ==
    /\ Applies("parse_cluster_id")
    /\ Unwrap(input).from = Some(<<18, 446744073, 709551615>>)
    /\ Arg = <<"https://scholar.google.com/scholar", "?", "cites", "=">> \o U64MaxDigits
    /\ Out.ok

(***************************************************************************)
(* Properties of the returned trees.                                       *)
(***************************************************************************)
\* the tree of p is an expansion of depth k: citers present down to level
\* k - 1, absent at level k, and nothing below
RECURSIVE ExpansionShape(_, _)
ExpansionShape(p, k) ==
    IF k = 0 THEN ~IsSome(p.citers)
    ELSE /\ IsSome(p.citers)
         /\ \A j \in 1..Len(Unwrap(p.citers)) :
               ExpansionShape(Unwrap(p.citers)[j], k - 1)

\* the paths of the calls made at or below the call of path P
CallsUnder(P) ==
    {log[j].path : j \in {i \in 1..Len(log) : log[i].ev = "ret" /\ IsPrefix(P, log[i].path)}}

\* one fetch by each call less than d levels below P, none by the others
OneFetchAbove(P, d) ==
    \A Q \in CallsUnder(P) :
       Cardinality(FetchesOf(Q)) = IF Len(Q) - Len(P) < d THEN 1 ELSE 0

\* C21: the tree a recursive_search call with depth d >= 1 returns has
\* citers present at every level below d and absent at level d, with no
\* node beyond; each call above level d issued one fetch, the calls at
\* level d none.
C21_ExpansionShape ==
    [](Returned /\ RetRes.ok /\ RetFrame.depth >= 1
          => /\ ExpansionShape(Val(RetRes), RetFrame.depth)
             /\ OneFetchAbove(RetFrame.path, RetFrame.depth))

\* a depth-2 tree with a child that has citers and a child whose page lists
\* none
C21_Witness ==
    /\ Returned /\ RetRes.ok /\ RetFrame.depth = 2
    /\ \E j \in 1..Len(Unwrap(Val(RetRes).citers)) :
          Unwrap(Val(RetRes).citers)[j].citers = Some(<<>>)
    /\ \E j \in 1..Len(Unwrap(Val(RetRes).citers)) :
          /\ IsSome(Unwrap(Val(RetRes).citers)[j].citers)
          /\ Unwrap(Unwrap(Val(RetRes).citers)[j].citers) # <<>>

\* the call of frame f has made a call on every citer of its page, there is
\* at least one, and every one of them failed
AllChildrenFailed(f) ==
    /\ Expanded(f)
    /\ f.citers # <<>>
    /\ Len(f.done) = Len(f.citers)
    /\ \A j \in 1..Len(f.done) : ~f.done[j].res.ok

\* what the extraction gives on the page of the call without its result
\* blocks
WithoutCiters(doc) == scrape_target_paper_with_citers([doc EXCEPT !.blocks = <<>>])

\* C22: a recursive_search call whose calls on the citers of its page all
\* fail returns Ok of a paper with citers present and empty, the very value
\* it returns for the same page without result blocks.
C22_SilentPruning ==
    [](Returned /\ AllChildrenFailed(RetFrame)
          => /\ RetRes.ok
             /\ Val(RetRes).citers = Some(<<>>)
             /\ RetRes = WithoutCiters(Unwrap(RetFrame.doc)))

\* a call returned after both citers of its page had failed
C22_Witness ==
    /\ Returned /\ AllChildrenFailed(RetFrame)
    /\ Len(RetFrame.citers) = 2
    /\ RetRes.ok

(***************************************************************************)
(* Properties of scrape_search_doc and scrape_citaiton_doc.                *)
(***************************************************************************)
ListingMode == mode \in {"search", "citation"}

\* the initial document is not blocked and its extraction succeeds
RootDocFine ==
    /\ ~rootDoc.blocked
    /\ IF mode = "search" THEN scrape_papers(rootDoc).ok
       ELSE scrape_target_paper_with_citers(rootDoc).ok

\* the operation fails exactly when its initial document does
FailsOnRootDocOnly ==
    (ListingMode /\ IsSome(outcome)) => (Unwrap(outcome).ok <=> RootDocFine)

\* the papers the handler prints, given the top-level papers that are left
PrintedOf(f, list) ==
    IF mode = "search" THEN list
    ELSE <<[Unwrap(f.new_paper) EXCEPT !.citers = Some(list)]>>

\* the handler, done with its top-level papers, prints the results of the
\* calls that succeeded, in their order, and returns success
PrintsSuccesses ==
    (ListingMode /\ Running /\ Top.fn = mode /\ Top.pc = "children" /\ stack' = <<>>)
        => /\ Len(Top.done) = Len(Top.citers)
           /\ \A j \in 1..Len(Top.done) : Top.done[j].seed = Top.citers[j]
           /\ printed' = PrintedOf(Top, OkVals(Top.done))
           /\ \A j \in 1..Len(OkVals(Top.done)) : IsSome(OkVals(Top.done)[j].citers)
           /\ outcome' = Some(Ok("done"))

\* C23: with recursive depth > 0, scrape_search_doc and scrape_citaiton_doc
\* leave out the top-level papers whose expansion failed, print the
\* expansions of the others and return success; they fail only when the
\* initial document is blocked or its extraction fails.
C23_TopLevelFailuresOmitted ==
    /\ []FailsOnRootDocOnly
    /\ [][PrintsSuccesses]_vars

\* a search with two results ended in success with one of them printed,
\* expanded
C23_Witness ==
    /\ mode = "search"
    /\ cfg.recursive_depth > 0
    /\ outcome = Some(Ok("done"))
    /\ Len(rootDoc.blocks) = 2
    /\ Len(printed) = 1
    /\ IsSome(printed[1].citers)

(***************************************************************************)
(* Properties of the title extraction.                                     *)
(***************************************************************************)
\* the texts of the children that are not span, joined in document order
RECURSIVE JoinedText(_, _)
JoinedText(cs, n) ==
    IF n = 0 THEN <<>>
    ELSE JoinedText(cs, n - 1) \o (IF cs[n].name = "span" THEN <<>> ELSE cs[n].text)

\* t is s without the blanks at its two ends
IsTrimOf(t, s) ==
    \E a, b \in 0..Len(s) :
        /\ a + b <= Len(s)
        /\ t = SubSeq(s, a + 1, Len(s) - b)
        /\ \A k \in 1..a : s[k] = " "
        /\ \A k \in (Len(s) - b + 1)..Len(s) : s[k] = " "
        /\ t # <<>> => t[1] # " " /\ t[Len(t)] # " "

AnchorsOf(cs) == {k \in 1..Len(cs) : cs[k].name = "a"}

VariantA(paper, anchor) == paper.title = anchor.text /\ paper.link = anchor.href

VariantB(paper, cs) ==
    /\ IsTrimOf(paper.title, JoinedText(cs, Len(cs)))
    /\ paper.link = <<>>

TitleAsClaimed(paper, cs) ==
    IF AnchorsOf(cs) # {} THEN VariantA(paper, cs[MinOf(AnchorsOf(cs))])
    ELSE VariantB(paper, cs)

\* C24: the paper scrape_paper_one returns for a block with a title region
\* has the text and href of the region's first anchor child when there is
\* one, whatever the other children, and otherwise the trimmed
\* concatenation of the texts of the children that are not span, with no
\* link.
C24_TitleVariantPrecedence ==
    (Applies("scrape_paper_one") /\ IsSome(Arg.rt) /\ Out.ok)
        => TitleAsClaimed(Val(Out), Unwrap(Arg.rt))

\* a region of a span, a text node and an anchor: the title is the anchor's
C24_Witness ==
    /\ Applies("scrape_paper_one") /\ IsSome(Arg.rt) /\ Out.ok
    /\ Len(Unwrap(Arg.rt)) = 3
    /\ Unwrap(Arg.rt)[1].name = "span"
    /\ Unwrap(Arg.rt)[2].name = ""
    /\ Unwrap(Arg.rt)[3].name = "a"
    /\ Val(Out).title = <<"Linked">>
    /\ IsSome(Val(Out).link)

(***************************************************************************)
(* The checks of recursive_search.                                         *)
(***************************************************************************)
\* the URL starts with the base of Google Scholar and has a "?" before any "#"
HasQueryString(url) ==
    /\ url # <<>>
    /\ url[1] = GOOGLESCHOLAR_URL_BASE
    /\ \E i \in 1..Len(url) : url[i] = "?" /\ \A k \in 1..i : url[k] # "#"

\* the checks of the call of frame f hold where the call stands
ChecksHold(f) ==
    /\ f.depth >= 0
    /\ f.pc # "entry" => f.depth > 0
    /\ f.depth > 0 => HasQueryString(Unwrap(f.paper).citation_url)
    /\ f.pc = "children" => IsSome(Unwrap(f.new_paper).citers)

\* C25: no recursive_search call aborts: its depth never goes below 0, it
\* is positive past the assertion, the citation URL of the paper a call
\* expands has a query string, citers is present in what the extraction
\* returned, and no run ends in a panic.
C25_NeverAborts ==
    [](/\ outcome # Some(Err("Panic"))
       /\ \A k \in 1..Len(stack) :
             stack[k].fn = "recursive_search" => ChecksHold(stack[k]))

\* a run of the largest depth, with a count set on its queries, ended in
\* success after a call two levels down had fetched its page
C25_Witness ==
    /\ outcome = Some(Ok("done"))
    /\ cfg.recursive_depth = MaxDepth
    /\ IsSome(cfg.max_result_count)
    /\ \E j \in 1..Len(log) : log[j].ev = "fetch" /\ Len(log[j].path) = MaxDepth
    /\ \E j \in 1..Len(log) : log[j].ev = "ret" /\ Len(log[j].path) > MaxDepth
====
